---- MODULE Spec2Model ----
(***************************************************************************)
(* Ownership primitives of the SQUADS library:                             *)
(*   squads::basic_linked_ptr  (include/core/linked_ptr.hpp)               *)
(*   squads::basic_auto_ptr    (include/core/auto_ptr.hpp)                 *)
(*                                                                         *)
(* Handle objects live at storage locations (Handles).  The storage of a   *)
(* destroyed handle has indeterminate content until a constructor reuses   *)
(* the location: the model keeps a fixed filler there, discards writes     *)
(* made to it through a dangling link (recording that one was made), and   *)
(* gives no defined result to any read of it.  A dangling write made after *)
(* the location was reused lands in the new handle.  Heap objects live at  *)
(* addresses (Addrs); `new` never hands out the same address twice.        *)
(*                                                                         *)
(* The two components share no state and are never composed with each      *)
(* other; a run exercises one of them (variable component).                *)
(***************************************************************************)
EXTENDS Integers, Sequences, FiniteSets, TLC

MaxHandles == 3
MaxAddrs == 2
MaxOps == 5
MaxAutoOps == 4

Null == 0
Handles == 1..MaxHandles
Addrs == 1..MaxAddrs

VARIABLES
    component,    \* "linked" or "auto": which primitive this run exercises
    steps,        \* operations performed so far (at most MaxOps; MaxAutoOps for auto)
    lastOp,       \* the operation that produced this state, with what it saw before
    \* ---- basic_linked_ptr ----
    lLive,        \* locations holding a constructed, not yet destroyed linked handle
    m_pValue,     \* location -> owned address (Null = nullptr)
    nodeNext,     \* location -> basic_linked_ptr_node::Next
    nodePrev,     \* location -> basic_linked_ptr_node::Prev
    heap,         \* addresses handed to a linked handle by construct/reset
    deleted,      \* addresses `delete` was applied to
    deletedTwice, \* addresses `delete` was applied to more than once
    \* ---- basic_auto_ptr ----
    aLive,        \* locations holding a constructed, not yet destroyed auto handle
    m_ptr,        \* location -> held address (Null = nullptr)
    pointees,     \* addresses of the pointees allocated so far
    rtype,        \* address -> runtime type of the pointee
    refs,         \* address -> the count the pointee stores
    destroyed,    \* pointees whose release() brought the count to zero
    calls,        \* the duplicate()/release() calls the last operation made, in order
    \* ---- both ----
    undefined     \* the last operation had undefined behaviour (access through a
                  \* link to a destroyed handle, a call on a destroyed pointee, a
                  \* loop that never ends): the run has no defined continuation

lvars == <<lLive, m_pValue, nodeNext, nodePrev, heap, deleted, deletedTwice>>
avars == <<aLive, m_ptr, pointees, rtype, refs, destroyed, calls>>
vars == <<component, steps, lastOp, undefined, lvars, avars>>

\* op: the operation; h: the handle it ran on; src: the handle it read from;
\* arg: the address it was given; ret: the address it deleted or returned;
\* holders, cnt: live holders of the address and count() seen before it ran.
Op(op, h, src, arg, ret, holders, cnt) ==
    [op |-> op, h |-> h, src |-> src, arg |-> arg, ret |-> ret,
     holders |-> holders, cnt |-> cnt]

(***************************************************************************)
(* basic_linked_ptr                                                        *)
(***************************************************************************)

\* The three fields of every location, as one value the methods transform.
Mem == [v |-> m_pValue, n |-> nodeNext, p |-> nodePrev]

\* bool unique() { return Next == this; }
unique(M, this) == M.n[this] = this

\* int count() const: one plus the number of Next steps until a node whose Next
\* is `this`.  The loop reads the Next field of every node it stands on; if one
\* of them is a destroyed handle, or the walk never comes back, the call has no
\* defined result, which is reported here as 0 (count() never returns 0).
RECURSIVE countFrom(_, _, _, _, _)
countFrom(M, live, this, pCurrent, n) ==
    IF pCurrent \notin live THEN 0
    ELSE IF M.n[pCurrent] = this THEN n
    ELSE IF n >= MaxHandles THEN 0
    ELSE countFrom(M, live, this, M.n[pCurrent], n + 1)

count(M, live, this) == countFrom(M, live, this, this, 1)

\* void link(const basic_linked_ptr<U>& pOther), with pOther.mpNext read as
\* pOther.Next (the node type has no other successor field).
link(M, this, pOther) ==
    LET n1 == [M.n EXCEPT ![this] = M.n[pOther]]   \* Next = pOther.Next
        p1 == [M.p EXCEPT ![this] = this]          \* Prev = this
        p2 == [p1 EXCEPT ![this] = pOther]         \* Prev = &pOther
        n2 == [n1 EXCEPT ![pOther] = this]         \* pOther.Next = this
    IN  [M EXCEPT !.n = n2, !.p = p2]

\* template <typename U> void reset(U* pValue).  Result: the memory afterwards,
\* the address handed to `delete` (Null: delete of nullptr, or no delete), and
\* whether a sibling written through Prev/Next was a destroyed handle.
reset(M, live, this, pValue) ==
    IF pValue = M.v[this]
    THEN [mem |-> M, del |-> Null, bad |-> FALSE]
    ELSE IF unique(M, this)
    THEN [mem |-> [M EXCEPT !.v[this] = pValue], del |-> M.v[this], bad |-> FALSE]
    ELSE LET n1 == [M.n EXCEPT ![M.p[this]] = M.n[this]]   \* Prev->Next = Next
             p1 == [M.p EXCEPT ![n1[this]] = M.p[this]]    \* Next->Prev = Prev
             n2 == [n1 EXCEPT ![this] = this]              \* Prev = Next = this
             p2 == [p1 EXCEPT ![this] = this]
         IN  [mem |-> [v |-> [M.v EXCEPT ![this] = pValue], n |-> n2, p |-> p2],
              del |-> Null,
              bad |-> (M.p[this] \notin live) \/ (n1[this] \notin live)]

\* basic_linked_ptr& operator = (const basic_linked_ptr<U>& _pPtr), for U = T too
assign(M, live, this, pPtr) ==
    IF M.v[pPtr] # M.v[this]
    THEN LET r == reset(M, live, this, M.v[pPtr])
         IN  IF M.v[pPtr] # Null
             THEN [r EXCEPT !.mem = link(r.mem, this, pPtr)]
             ELSE r
    ELSE [mem |-> M, del |-> Null, bad |-> FALSE]

\* pointer detach(): the do/while walk.  Each visited node has its value nulled
\* and is made a singleton; the walk ends when the saved successor is `this`.
\* A node visited a second time has Next = itself, so the loop then never ends.
\* A walk that steps onto a destroyed handle has no defined continuation either.
RECURSIVE detachWalk(_, _, _, _, _)
detachWalk(M, live, this, p, seen) ==
    LET pNext == M.n[p]
        M1 == [v |-> [M.v EXCEPT ![p] = Null],
               n |-> [M.n EXCEPT ![p] = p],
               p |-> [M.p EXCEPT ![p] = p]]
        seen1 == seen \cup {p}
    IN  IF pNext = this
        THEN [mem |-> M1, bad |-> FALSE, hang |-> FALSE]
        ELSE IF pNext \notin live
        THEN [mem |-> M1, bad |-> TRUE, hang |-> TRUE]
        ELSE IF pNext \in seen1
        THEN [mem |-> M1, bad |-> FALSE, hang |-> TRUE]
        ELSE detachWalk(M1, live, this, pNext, seen1)

detach(M, live, this) ==
    [ret |-> M.v[this]] @@ detachWalk(M, live, this, this, {})

\* Number of live handles holding the address of handle h.
holdersOf(h) == Cardinality({g \in lLive : m_pValue[g] = m_pValue[h]})

\* `new T`: the next address not handed out before.
Fresh == {a \in Addrs \ heap : \A b \in Addrs \ heap : a <= b}

\* Effect of `delete a` on the heap bookkeeping.
Delete(a) ==
    /\ deleted' = IF a = Null THEN deleted ELSE deleted \cup {a}
    /\ deletedTwice' = IF a \in deleted THEN deletedTwice \cup {a} ELSE deletedTwice

\* Store the fields; locations outside `live` hold the filler.
SetMem(M, live) ==
    /\ m_pValue' = [h \in Handles |-> IF h \in live THEN M.v[h] ELSE Null]
    /\ nodeNext' = [h \in Handles |-> IF h \in live THEN M.n[h] ELSE h]
    /\ nodePrev' = [h \in Handles |-> IF h \in live THEN M.p[h] ELSE h]

\* Every operation is one step of a run that is still defined.
Step ==
    /\ ~undefined
    /\ steps < MaxOps
    /\ steps' = steps + 1
    /\ UNCHANGED component

LinkedRunning == component = "linked" /\ Step /\ UNCHANGED avars

\* basic_linked_ptr()
LinkedConstruct(h) ==
    /\ LinkedRunning
    /\ h \notin lLive
    /\ lLive' = lLive \cup {h}
    /\ m_pValue' = [m_pValue EXCEPT ![h] = Null]
    /\ nodeNext' = [nodeNext EXCEPT ![h] = h]
    /\ nodePrev' = [nodePrev EXCEPT ![h] = h]
    /\ lastOp' = Op("construct", h, h, Null, Null, 0, 0)
    /\ UNCHANGED <<heap, deleted, deletedTwice, undefined>>

\* explicit basic_linked_ptr(pointer pValue), pValue from `new T` or nullptr
LinkedConstructRaw(h, a) ==
    /\ LinkedRunning
    /\ h \notin lLive
    /\ a \in Fresh \cup {Null}
    /\ lLive' = lLive \cup {h}
    /\ m_pValue' = [m_pValue EXCEPT ![h] = a]
    /\ nodeNext' = [nodeNext EXCEPT ![h] = h]
    /\ nodePrev' = [nodePrev EXCEPT ![h] = h]
    /\ heap' = heap \cup ({a} \ {Null})
    /\ lastOp' = Op("construct_raw", h, h, a, Null, 0, 0)
    /\ UNCHANGED <<deleted, deletedTwice, undefined>>

\* basic_linked_ptr(const basic_linked_ptr&) and its converting twin
LinkedCopyConstruct(h, src) ==
    /\ LinkedRunning
    /\ h \notin lLive
    /\ src \in lLive
    /\ lLive' = lLive \cup {h}
    /\ LET M0 == [Mem EXCEPT !.v[h] = m_pValue[src]]
       IN  IF m_pValue[src] # Null
           THEN SetMem(link(M0, h, src), lLive \cup {h})
           ELSE SetMem([M0 EXCEPT !.n[h] = h, !.p[h] = h], lLive \cup {h})
    /\ lastOp' = Op("copy", h, src, m_pValue[src], Null, holdersOf(src),
                    count(Mem, lLive, src))
    /\ UNCHANGED <<heap, deleted, deletedTwice, undefined>>

\* ~basic_linked_ptr() { reset(); }
LinkedDestroy(h) ==
    /\ LinkedRunning
    /\ h \in lLive
    /\ LET r == reset(Mem, lLive, h, Null)
       IN  /\ SetMem(r.mem, lLive \ {h})
           /\ Delete(r.del)
           /\ undefined' = r.bad
           /\ lastOp' = Op("destroy", h, h, Null, r.del, holdersOf(h),
                           count(Mem, lLive, h))
    /\ lLive' = lLive \ {h}
    /\ UNCHANGED heap

\* reset(), reset(U* pValue), operator=(U* pValue)
LinkedReset(h, a) ==
    /\ LinkedRunning
    /\ h \in lLive
    /\ a \in Fresh \cup {Null}
    /\ LET r == reset(Mem, lLive, h, a)
       IN  /\ SetMem(r.mem, lLive)
           /\ Delete(r.del)
           /\ undefined' = r.bad
           /\ lastOp' = Op("reset", h, h, a, r.del, holdersOf(h),
                           count(Mem, lLive, h))
    /\ heap' = heap \cup ({a} \ {Null})
    /\ UNCHANGED <<lLive>>

\* operator=(const basic_linked_ptr&) and its converting twin
LinkedAssign(h, src) ==
    /\ LinkedRunning
    /\ h \in lLive
    /\ src \in lLive
    /\ LET r == assign(Mem, lLive, h, src)
       IN  /\ SetMem(r.mem, lLive)
           /\ Delete(r.del)
           /\ undefined' = r.bad
           /\ lastOp' = Op("assign", h, src, m_pValue[src], r.del,
                           holdersOf(h), count(Mem, lLive, src))
    /\ UNCHANGED <<lLive, heap>>

\* pointer detach()
LinkedDetach(h) ==
    /\ LinkedRunning
    /\ h \in lLive
    /\ LET r == detach(Mem, lLive, h)
       IN  /\ SetMem(r.mem, lLive)
           /\ undefined' = (r.bad \/ r.hang)
           /\ lastOp' = Op("detach", h, h, Null, r.ret, holdersOf(h),
                           count(Mem, lLive, h))
    /\ UNCHANGED <<lLive, heap, deleted, deletedTwice>>

\* void force_delete() { pointer _pValue = detach(); delete _pValue; }
LinkedForceDelete(h) ==
    /\ LinkedRunning
    /\ h \in lLive
    /\ LET r == detach(Mem, lLive, h)
       IN  /\ SetMem(r.mem, lLive)
           /\ undefined' = (r.bad \/ r.hang)
           /\ IF r.hang THEN UNCHANGED <<deleted, deletedTwice>> ELSE Delete(r.ret)
           /\ lastOp' = Op("force_delete", h, h, Null, r.ret, holdersOf(h),
                           count(Mem, lLive, h))
    /\ UNCHANGED <<lLive, heap>>

(***************************************************************************)
(* basic_auto_ptr                                                          *)
(***************************************************************************)

\* The pointee types are Base and Derived, a class derived from Base; both
\* implement the counting capability.
\* A U* converts implicitly to a T* (and dynamic_cast<T*> of a U object succeeds).
Derives(U, T) == U = T \/ (U = "Derived" /\ T = "Base")

\* The declared type of the handle variable at each location: basic_auto_ptr<Base>
\* at the odd locations, basic_auto_ptr<Derived> at the even ones.
htype(h) == IF h % 2 = 0 THEN "Derived" ELSE "Base"

\* The handles' addresses and the pointees' state, as one value the methods
\* transform; calls collects the capability calls made, bad a call made on a
\* pointee that was already destroyed.
AutoState ==
    [ptr |-> m_ptr, refs |-> refs, gone |-> destroyed, calls |-> <<>>, bad |-> FALSE]

\* T::duplicate(): increments the stored count, returns the same address.
duplicate(S, a) ==
    IF a \in S.gone
    THEN [S EXCEPT !.calls = Append(@, <<"duplicate", a>>), !.bad = TRUE]
    ELSE [S EXCEPT !.calls = Append(@, <<"duplicate", a>>), !.refs[a] = @ + 1]

\* T::release(): decrements the stored count, destroys the pointee at zero.
release(S, a) ==
    IF a \in S.gone
    THEN [S EXCEPT !.calls = Append(@, <<"release", a>>), !.bad = TRUE]
    ELSE [S EXCEPT !.calls = Append(@, <<"release", a>>),
                   !.refs[a] = @ - 1,
                   !.gone = IF S.refs[a] = 1 THEN @ \cup {a} ELSE @]

\* if (p) p->duplicate();   if (p) p->release();
dupIf(S, p) == IF p # Null THEN duplicate(S, p) ELSE S
relIf(S, p) == IF p # Null THEN release(S, p) ELSE S

\* basic_auto_ptr(pointer ptr)  and  basic_auto_ptr(pointer ptr, bool shared)
ctor_ptr(S, this, ptr) == [S EXCEPT !.ptr[this] = ptr]
ctor_ptr_shared(S, this, ptr, shared) == [S EXCEPT !.ptr[this] = ptr]

\* basic_auto_ptr(const self_type& other)
ctor_copy(S, this, other) == [S EXCEPT !.ptr[this] = S.ptr[other]]

\* basic_auto_ptr(basic_auto_ptr&& other)
ctor_move(S, this, other) ==
    LET S1 == [S EXCEPT !.ptr[this] = S.ptr[other]]
    IN  [S1 EXCEPT !.ptr[other] = Null]

\* template <class TO> basic_auto_ptr(const basic_auto_ptr<TO>& other)
ctor_convert(S, this, other) ==
    LET S1 == [S EXCEPT !.ptr[this] = S.ptr[other]]
    IN  dupIf(S1, S1.ptr[this])

\* ~basic_auto_ptr() as it would be without its release() call.
dtor_noRelease(S, this) == S

\* ~basic_auto_ptr()
dtor(S, this) == relIf(S, S.ptr[this])

\* void reset()
reset0(S, this) ==
    IF S.ptr[this] # Null
    THEN [release(S, S.ptr[this]) EXCEPT !.ptr[this] = Null]
    ELSE S

\* self_type& assign(pointer other)
assign_ptr(S, this, other) ==
    IF S.ptr[this] # other
    THEN [relIf(S, S.ptr[this]) EXCEPT !.ptr[this] = other]
    ELSE S

\* assign(pointer, bool) as it would be if it ignored `shared`.
assign_ptr_ignoresShared(S, this, other, shared) ==
    IF S.ptr[this] # other
    THEN [relIf(S, S.ptr[this]) EXCEPT !.ptr[this] = other]
    ELSE S

\* self_type& assign(pointer other, bool shared)
assign_ptr_shared(S, this, other, shared) ==
    IF S.ptr[this] # other
    THEN LET S1 == [relIf(S, S.ptr[this]) EXCEPT !.ptr[this] = other]
         IN  IF shared THEN dupIf(S1, S1.ptr[this]) ELSE S1
    ELSE S

\* assign(const self_type&) as it would be without its `&other != this` test.
assign_noSelfTest(S, this, other) ==
    LET S1 == [relIf(S, S.ptr[this]) EXCEPT !.ptr[this] = S.ptr[other]]
    IN  dupIf(S1, S1.ptr[this])

\* self_type& assign(const self_type& other)
assign_self(S, this, other) ==
    IF other # this
    THEN LET S1 == [relIf(S, S.ptr[this]) EXCEPT !.ptr[this] = S.ptr[other]]
         IN  dupIf(S1, S1.ptr[this])
    ELSE S

\* template <class TO> self_type& assign(const basic_auto_ptr<TO>& other)
assign_convert(S, this, other) ==
    IF S.ptr[other] # S.ptr[this]
    THEN LET S1 == [relIf(S, S.ptr[this]) EXCEPT !.ptr[this] = S.ptr[other]]
         IN  dupIf(S1, S1.ptr[this])
    ELSE S

\* operator=(self_type&&) as it would be without releasing the held address.
assign_move_noRelease(S, this, other) ==
    LET S2 == [S EXCEPT !.ptr[this] = S.ptr[other]]
    IN  [S2 EXCEPT !.ptr[other] = Null]

\* self_type& operator = (self_type&& other)
assign_move(S, this, other) ==
    LET S1 == relIf(S, S.ptr[this])
        S2 == [S1 EXCEPT !.ptr[this] = S1.ptr[other]]
    IN  [S2 EXCEPT !.ptr[other] = Null]

\* void swap(self_type& ptr)
swap(S, this, other) ==
    [S EXCEPT !.ptr[this] = S.ptr[other], !.ptr[other] = S.ptr[this]]

\* dynamic_cast<TO*>(m_ptr): the address if the pointee is a TO, else nullptr.
dynamic_cast(TO, p) == IF p # Null /\ Derives(rtype[p], TO) THEN p ELSE Null

\* template <class TO> basic_auto_ptr<TO> dycast() const, result built at `res`;
\* the cast reads the type of the pointee, which must not have been destroyed.
dycast(S, this, res, TO) ==
    LET S1 == ctor_ptr_shared(S, res, dynamic_cast(TO, S.ptr[this]), TRUE)
    IN  IF S.ptr[this] \in S.gone THEN [S1 EXCEPT !.bad = TRUE] ELSE S1

\* template <class TO> basic_auto_ptr<TO> scast() const, result built at `res`
scast(S, this, res, TO) == ctor_ptr_shared(S, res, S.ptr[this], TRUE)

\* Number of live auto handles holding address a.
handlesOn(a) == Cardinality({g \in aLive : m_ptr[g] = a})

\* `new T`: the next address not handed out before.
FreshPointee == {a \in Addrs \ pointees : \A b \in Addrs \ pointees : a <= b}

\* Store the result of a method; locations outside `live` hold the filler.
SetAuto(S, live) ==
    /\ m_ptr' = [h \in Handles |-> IF h \in live THEN S.ptr[h] ELSE Null]
    /\ aLive' = live
    /\ refs' = S.refs
    /\ destroyed' = S.gone
    /\ calls' = S.calls
    /\ undefined' = S.bad

\* Runs over intrusive handles are explored to MaxAutoOps operations.
AutoRunning == component = "auto" /\ Step /\ steps < MaxAutoOps /\ UNCHANGED lvars

\* basic_auto_ptr<T>()  and  basic_auto_ptr<T>(nullptr)
AutoConstruct(h) ==
    /\ AutoRunning
    /\ h \notin aLive
    /\ SetAuto(ctor_ptr(AutoState, h, Null), aLive \cup {h})
    /\ lastOp' = Op("construct", h, h, Null, Null, 0, 0)
    /\ UNCHANGED <<pointees, rtype>>

\* make_auto<T>(): auto_ptr<T>(new T(...)); the new pointee counts one reference
AutoMakeAuto(h, a) ==
    /\ AutoRunning
    /\ h \notin aLive
    /\ a \in FreshPointee
    /\ pointees' = pointees \cup {a}
    /\ rtype' = [rtype EXCEPT ![a] = htype(h)]
    /\ SetAuto(ctor_ptr([AutoState EXCEPT !.refs[a] = 1], h, a), aLive \cup {h})
    /\ lastOp' = Op("make_auto", h, h, a, Null, 0, 0)

\* basic_auto_ptr<T> h(src), src a basic_auto_ptr<T>
AutoCopyConstruct(h, src) ==
    /\ AutoRunning
    /\ h \notin aLive
    /\ src \in aLive
    /\ htype(h) = htype(src)
    /\ SetAuto(ctor_copy(AutoState, h, src), aLive \cup {h})
    /\ lastOp' = Op("copy", h, src, m_ptr[src], Null, handlesOn(m_ptr[src]),
                    IF m_ptr[src] = Null THEN 0 ELSE refs[m_ptr[src]])
    /\ UNCHANGED <<pointees, rtype>>

\* basic_auto_ptr<T> h(move(src)), src a basic_auto_ptr<T>
AutoMoveConstruct(h, src) ==
    /\ AutoRunning
    /\ h \notin aLive
    /\ src \in aLive
    /\ htype(h) = htype(src)
    /\ SetAuto(ctor_move(AutoState, h, src), aLive \cup {h})
    /\ lastOp' = Op("move", h, src, m_ptr[src], Null, handlesOn(m_ptr[src]),
                    IF m_ptr[src] = Null THEN 0 ELSE refs[m_ptr[src]])
    /\ UNCHANGED <<pointees, rtype>>

\* basic_auto_ptr<T> h(src), src a basic_auto_ptr<TO>, TO* convertible to T*
AutoConvertConstruct(h, src) ==
    /\ AutoRunning
    /\ h \notin aLive
    /\ src \in aLive
    /\ htype(h) # htype(src) /\ Derives(htype(src), htype(h))
    /\ SetAuto(ctor_convert(AutoState, h, src), aLive \cup {h})
    /\ lastOp' = Op("convert", h, src, m_ptr[src], Null, handlesOn(m_ptr[src]),
                    IF m_ptr[src] = Null THEN 0 ELSE refs[m_ptr[src]])
    /\ UNCHANGED <<pointees, rtype>>

\* the handle at h goes out of scope
AutoDestroy(h) ==
    /\ AutoRunning
    /\ h \in aLive
    /\ SetAuto(dtor(AutoState, h), aLive \ {h})
    /\ lastOp' = Op("destroy", h, h, m_ptr[h], Null, handlesOn(m_ptr[h]),
                    IF m_ptr[h] = Null THEN 0 ELSE refs[m_ptr[h]])
    /\ UNCHANGED <<pointees, rtype>>

\* h.reset()
AutoReset(h) ==
    /\ AutoRunning
    /\ h \in aLive
    /\ SetAuto(reset0(AutoState, h), aLive)
    /\ lastOp' = Op("reset", h, h, m_ptr[h], Null, handlesOn(m_ptr[h]),
                    IF m_ptr[h] = Null THEN 0 ELSE refs[m_ptr[h]])
    /\ UNCHANGED <<pointees, rtype>>

\* h.reset(ptr), h = ptr: ptr is nullptr, the address h holds, or a `new` pointee
\* whose one reference the handle takes over
AutoResetPtr(h, ptr) ==
    /\ AutoRunning
    /\ h \in aLive
    /\ ptr \in FreshPointee \cup {Null, m_ptr[h]}
    /\ pointees' = pointees \cup ({ptr} \ {Null})
    /\ rtype' = IF ptr \in FreshPointee THEN [rtype EXCEPT ![ptr] = htype(h)] ELSE rtype
    /\ LET S0 == IF ptr \in FreshPointee THEN [AutoState EXCEPT !.refs[ptr] = 1]
                 ELSE AutoState
       IN  SetAuto(assign_ptr(S0, h, ptr), aLive)
    /\ lastOp' = Op("reset_ptr", h, h, ptr, Null, handlesOn(m_ptr[h]),
                    IF m_ptr[h] = Null THEN 0 ELSE refs[m_ptr[h]])

\* h.reset(ptr, shared): with shared, ptr is nullptr or an address some handle
\* holds (the caller keeps its own reference); without, as for reset(ptr)
AutoResetShared(h, ptr, shared) ==
    /\ AutoRunning
    /\ h \in aLive
    /\ IF shared
       THEN /\ ptr \in {Null} \cup {m_ptr[g] : g \in aLive}
            /\ ptr # Null => Derives(rtype[ptr], htype(h))
       ELSE ptr \in FreshPointee \cup {Null, m_ptr[h]}
    /\ pointees' = pointees \cup ({ptr} \ {Null})
    /\ rtype' = IF ptr \in FreshPointee THEN [rtype EXCEPT ![ptr] = htype(h)] ELSE rtype
    /\ LET S0 == IF ptr \in FreshPointee THEN [AutoState EXCEPT !.refs[ptr] = 1]
                 ELSE AutoState
       IN  SetAuto(assign_ptr_shared(S0, h, ptr, shared), aLive)
    /\ lastOp' = Op(IF shared THEN "reset_shared" ELSE "reset_unshared", h, h, ptr,
                    Null, handlesOn(m_ptr[h]),
                    IF m_ptr[h] = Null THEN 0 ELSE refs[m_ptr[h]])

\* h = src, h.reset(src), both basic_auto_ptr<T> (src may be h itself)
AutoAssign(h, src) ==
    /\ AutoRunning
    /\ h \in aLive
    /\ src \in aLive
    /\ htype(h) = htype(src)
    /\ SetAuto(assign_self(AutoState, h, src), aLive)
    /\ lastOp' = Op("assign", h, src, m_ptr[src], m_ptr[h], handlesOn(m_ptr[h]),
                    IF m_ptr[h] = Null THEN 0 ELSE refs[m_ptr[h]])
    /\ UNCHANGED <<pointees, rtype>>

\* h = src, h.reset(src), src a basic_auto_ptr<TO>, TO* convertible to T*
AutoConvertAssign(h, src) ==
    /\ AutoRunning
    /\ h \in aLive
    /\ src \in aLive
    /\ htype(h) # htype(src) /\ Derives(htype(src), htype(h))
    /\ SetAuto(assign_convert(AutoState, h, src), aLive)
    /\ lastOp' = Op("assign_convert", h, src, m_ptr[src], m_ptr[h],
                    handlesOn(m_ptr[h]),
                    IF m_ptr[h] = Null THEN 0 ELSE refs[m_ptr[h]])
    /\ UNCHANGED <<pointees, rtype>>

\* h = move(src), both basic_auto_ptr<T>
AutoMoveAssign(h, src) ==
    /\ AutoRunning
    /\ h \in aLive
    /\ src \in aLive
    /\ htype(h) = htype(src)
    /\ SetAuto(assign_move(AutoState, h, src), aLive)
    /\ lastOp' = Op("assign_move", h, src, m_ptr[src], m_ptr[h],
                    handlesOn(m_ptr[h]),
                    IF m_ptr[h] = Null THEN 0 ELSE refs[m_ptr[h]])
    /\ UNCHANGED <<pointees, rtype>>

\* h.swap(g), swap(h, g)
AutoSwap(h, g) ==
    /\ AutoRunning
    /\ h \in aLive
    /\ g \in aLive
    /\ htype(h) = htype(g)
    /\ SetAuto(swap(AutoState, h, g), aLive)
    /\ lastOp' = Op("swap", h, g, m_ptr[g], m_ptr[h], handlesOn(m_ptr[h]),
                    IF m_ptr[h] = Null THEN 0 ELSE refs[m_ptr[h]])
    /\ UNCHANGED <<pointees, rtype>>

\* basic_auto_ptr<TO> h = src.dycast<TO>()
AutoDycast(h, src) ==
    /\ AutoRunning
    /\ h \notin aLive
    /\ src \in aLive
    /\ SetAuto(dycast(AutoState, src, h, htype(h)), aLive \cup {h})
    /\ lastOp' = Op("dycast", h, src, m_ptr[src], Null, handlesOn(m_ptr[src]),
                    IF m_ptr[src] = Null THEN 0 ELSE refs[m_ptr[src]])
    /\ UNCHANGED <<pointees, rtype>>

\* basic_auto_ptr<TO> h = src.scast<TO>()
AutoScast(h, src) ==
    /\ AutoRunning
    /\ h \notin aLive
    /\ src \in aLive
    /\ SetAuto(scast(AutoState, src, h, htype(h)), aLive \cup {h})
    /\ lastOp' = Op("scast", h, src, m_ptr[src], Null, handlesOn(m_ptr[src]),
                    IF m_ptr[src] = Null THEN 0 ELSE refs[m_ptr[src]])
    /\ UNCHANGED <<pointees, rtype>>

AutoInit ==
    /\ aLive = {}
    /\ m_ptr = [h \in Handles |-> Null]
    /\ pointees = {}
    /\ rtype = [a \in Addrs |-> "Base"]
    /\ refs = [a \in Addrs |-> 0]
    /\ destroyed = {}
    /\ calls = <<>>

LinkedInit ==
    /\ lLive = {}
    /\ m_pValue = [h \in Handles |-> Null]
    /\ nodeNext = [h \in Handles |-> h]
    /\ nodePrev = [h \in Handles |-> h]
    /\ heap = {}
    /\ deleted = {}
    /\ deletedTwice = {}

Init ==
    /\ component \in {"linked", "auto"}
    /\ steps = 0
    /\ undefined = FALSE
    /\ lastOp = Op("init", Null, Null, Null, Null, 0, 0)
    /\ LinkedInit
    /\ AutoInit

\* The operations that build, copy, re-seat and destroy linked handles.
LinkedCore ==
    \/ \E h \in Handles : LinkedConstruct(h)
    \/ \E h \in Handles, a \in Addrs \cup {Null} : LinkedConstructRaw(h, a)
    \/ \E h \in Handles, src \in Handles : LinkedCopyConstruct(h, src)
    \/ \E h \in Handles : LinkedDestroy(h)
    \/ \E h \in Handles, a \in Addrs \cup {Null} : LinkedReset(h, a)
    \/ \E h \in Handles, src \in Handles : LinkedAssign(h, src)

LinkedNext ==
    \/ LinkedCore
    \/ \E h \in Handles : LinkedDetach(h)
    \/ \E h \in Handles : LinkedForceDelete(h)

AutoNext ==
    \/ \E h \in Handles : AutoConstruct(h)
    \/ \E h \in Handles, a \in Addrs : AutoMakeAuto(h, a)
    \/ \E h \in Handles, src \in Handles : AutoCopyConstruct(h, src)
    \/ \E h \in Handles, src \in Handles : AutoMoveConstruct(h, src)
    \/ \E h \in Handles, src \in Handles : AutoConvertConstruct(h, src)
    \/ \E h \in Handles : AutoDestroy(h)
    \/ \E h \in Handles : AutoReset(h)
    \/ \E h \in Handles, p \in Addrs \cup {Null} : AutoResetPtr(h, p)
    \/ \E h \in Handles, p \in Addrs \cup {Null}, sh \in BOOLEAN : AutoResetShared(h, p, sh)
    \/ \E h \in Handles, src \in Handles : AutoAssign(h, src)
    \/ \E h \in Handles, src \in Handles : AutoConvertAssign(h, src)
    \/ \E h \in Handles, src \in Handles : AutoMoveAssign(h, src)
    \/ \E h \in Handles, g \in Handles : AutoSwap(h, g)
    \/ \E h \in Handles, src \in Handles : AutoDycast(h, src)
    \/ \E h \in Handles, src \in Handles : AutoScast(h, src)

Next == LinkedNext \/ AutoNext

InitLinked == Init /\ component = "linked"
InitAuto == Init /\ component = "auto"

\* Runs over either primitive.
Spec == Init /\ [][Next]_vars

\* Runs over linked handles, with every operation.
SpecLinked == InitLinked /\ [][LinkedNext]_vars

\* Runs over linked handles that never call detach() or force_delete().
SpecLinkedCore == InitLinked /\ [][LinkedCore]_vars

\* Runs over intrusive handles.
SpecAuto == InitAuto /\ [][AutoNext]_vars

(***************************************************************************)
(* Observers used by the properties                                        *)
(***************************************************************************)

\* Live linked handles holding address a.
Holders(a) == {h \in lLive : m_pValue[h] = a}

\* The nodes reached from h by following Next, h included.
RECURSIVE Reach(_, _)
Reach(seen, p) ==
    IF p \in seen THEN seen ELSE Reach(seen \cup {p}, nodeNext[p])

Orbit(h) == Reach({}, h)

countOf(h) == count(Mem, lLive, h)
uniqueOf(h) == unique(Mem, h)

(***************************************************************************)
(* Properties                                                              *)
(***************************************************************************)

\* C1: circular-list pointer, no premature deletion: in runs of construct,
\* copy-construct, copy-assign, reset and destroy (no detach/force_delete, each
\* raw address handed over once), no live handle holds an address that has
\* been deleted, i.e. the delete branch is only taken by the last holder.
C1_NoPrematureDelete ==
    \A h \in lLive : m_pValue[h] # Null => m_pValue[h] \notin deleted

\* C2: circular-list pointer, no leak: in the same runs, once no live handle
\* holds an address that was handed to a handle, the object has been deleted,
\* and deleted exactly once.  Stated for runs whose every step was defined.
C2_LastDestroyDeletesOnce ==
    ~undefined =>
        \A a \in heap :
            Holders(a) = {} => (a \in deleted /\ a \notin deletedTwice)

\* C3: circular-list pointer, cycle invariant: for every live handle h with a
\* non-null address the nodes reached by following Next from h are exactly the
\* live handles holding h's address, and for every live node n,
\* n.Next.Prev = n and n.Prev.Next = n.
C3_CycleInvariant ==
    \A h \in lLive :
        /\ m_pValue[h] # Null => Orbit(h) = Holders(m_pValue[h])
        /\ nodePrev[nodeNext[h]] = h
        /\ nodeNext[nodePrev[h]] = h

\* The calls a handle operation is expected to make: release of `old` if it is
\* non-null, then duplicate of `new` if it is non-null.
Rel(old) == IF old # Null THEN <<<<"release", old>>>> ELSE <<>>
Dup(new) == IF new # Null THEN <<<<"duplicate", new>>>> ELSE <<>>

\* Live auto handles hold address a as often as its pointee counts.
CountAgrees(a) ==
    IF a \in destroyed THEN handlesOn(a) = 0 ELSE refs[a] = handlesOn(a)

\* C4: intrusive pointer, count/handle agreement: starting from make_auto, after
\* any sequence of the handle operations the count of every pointee equals the
\* number of live handles holding its address, a destroyed pointee is held by
\* no handle, and no operation calls duplicate()/release() on a destroyed
\* pointee.
C4_CountMatchesHandles ==
    /\ \A a \in pointees : CountAgrees(a)
    /\ ~undefined

\* C5: intrusive pointer: copy-constructing from a non-null handle calls
\* duplicate() exactly once, and destroying the copy right after calls
\* release() exactly once, leaves the original holding the same non-null
\* address and the pointee's count at its value before the copy.
C5_CopyThenDestroyCopy ==
    [][ /\ (lastOp'.op = "copy" /\ component = "auto" /\ lastOp'.arg # Null)
            => calls' = Dup(lastOp'.arg)
        /\ ( /\ component = "auto"
             /\ lastOp.op = "copy" /\ lastOp.arg # Null
             /\ lastOp'.op = "destroy" /\ lastOp'.h = lastOp.h )
            => /\ calls' = Rel(lastOp.arg)
               /\ lastOp.src \in aLive'
               /\ m_ptr'[lastOp.src] = lastOp.arg
               /\ lastOp.arg \notin destroyed'
               /\ refs'[lastOp.arg] = lastOp.cnt
      ]_vars

\* C6: intrusive pointer casts: dycast<U> on a pointee that is not a U gives a
\* null handle and calls nothing; on a pointee that is a U it gives a non-null
\* handle on the same address, has called duplicate() exactly once (count one
\* higher) and leaves the source's address unchanged; scast<U> on a non-null
\* address calls duplicate() exactly once.
C6_CastsDuplicateOnce ==
    /\ (component = "auto" /\ lastOp.op = "dycast" /\ lastOp.arg # Null /\ ~undefined)
        => IF Derives(rtype[lastOp.arg], htype(lastOp.h))
           THEN /\ m_ptr[lastOp.h] = lastOp.arg
                /\ calls = Dup(lastOp.arg)
                /\ refs[lastOp.arg] = lastOp.cnt + 1
                /\ m_ptr[lastOp.src] = lastOp.arg
           ELSE /\ m_ptr[lastOp.h] = Null
                /\ calls = <<>>
    /\ (component = "auto" /\ lastOp.op = "scast" /\ lastOp.arg # Null)
        => /\ calls = Dup(lastOp.arg)
           /\ refs[lastOp.arg] = lastOp.cnt + 1

\* C7: self-assignment h = h, on an intrusive handle and on a linked handle, in
\* any reachable state: changes no handle's address and no sibling link,
\* deletes nothing, calls neither duplicate() nor release(), leaves every count
\* as it was and is defined.
C7_SelfAssignNoOp ==
    [][ (lastOp'.op = "assign" /\ lastOp'.h = lastOp'.src)
            => /\ UNCHANGED <<lLive, m_pValue, nodeNext, nodePrev, deleted, deletedTwice>>
               /\ UNCHANGED <<aLive, m_ptr, refs, destroyed>>
               /\ calls' = <<>>
               /\ ~undefined'
               /\ component = "linked" => \A g \in lLive : countOf(g)' = countOf(g)
      ]_vars

\* C7 witness: a self-assignment of a non-null handle that is one of several
\* aliases has run, on a linked handle or on an intrusive handle.
C7_Witness ==
    /\ lastOp.op = "assign" /\ lastOp.h = lastOp.src /\ lastOp.arg # Null
    /\ \/ component = "linked" /\ Cardinality(Holders(lastOp.arg)) >= 2
       \/ component = "auto" /\ handlesOn(lastOp.arg) >= 2

\* C8: intrusive pointer copy-assignment a = b between distinct handles of the
\* same type: if both already hold the same non-null address nothing is called
\* and a's address is unchanged; if the addresses differ, a's former non-null
\* address is released exactly once and b's non-null address is duplicated
\* exactly once.  Stated for runs whose every step was defined.
C8_AssignSameAddressNoOp ==
    (component = "auto" /\ lastOp.op = "assign" /\ lastOp.h # lastOp.src /\ ~undefined)
        => /\ m_ptr[lastOp.h] = lastOp.arg
           /\ IF lastOp.arg = lastOp.ret
              THEN calls = <<>>
              ELSE calls = Rel(lastOp.ret) \o Dup(lastOp.arg)

\* C9: circular-list pointer: copying a non-null handle P that is the only live
\* handle for its address into Q makes count() = 2 and unique() false on both,
\* with equal addresses; copying a member of a cycle of n handles makes
\* count() = n + 1 on every member and on the new handle.
C9_CopyCountsOneMore ==
    (component = "linked" /\ lastOp.op = "copy" /\ lastOp.arg # Null)
        => /\ lastOp.holders = 1
               => /\ countOf(lastOp.src) = 2 /\ countOf(lastOp.h) = 2
                  /\ ~uniqueOf(lastOp.src) /\ ~uniqueOf(lastOp.h)
                  /\ m_pValue[lastOp.src] = m_pValue[lastOp.h]
           /\ lastOp.cnt # 0
               => \A g \in Orbit(lastOp.h) : countOf(g) = lastOp.cnt + 1

\* C10: circular-list pointer: after copying P, the only live handle for its
\* address, into Q, destroying Q restores count() = 1 and unique() on P, leaves
\* P's address unchanged and does not delete the object.
C10_DestroyCopyRestoresUnique ==
    [][ ( /\ component = "linked"
          /\ lastOp.op = "copy" /\ lastOp.arg # Null /\ lastOp.holders = 1
          /\ lastOp'.op = "destroy" /\ lastOp'.h = lastOp.h )
            => \A P \in Handles : P = lastOp.src
                => /\ countOf(P)' = 1
                   /\ uniqueOf(P)'
                   /\ m_pValue'[P] = lastOp.arg
                   /\ lastOp.arg \notin deleted'
      ]_vars

\* A live handle that is its own successor and predecessor.
Singleton(h) == nodeNext[h] = h /\ nodePrev[h] = h

\* C11: circular-list pointer detach(): called on a handle of a group sharing a
\* non-null address, it is defined, returns that address, deletes nothing,
\* and leaves every handle of the group null and a singleton; destroying one
\* of those handles right afterwards deletes nothing either.
C11_DetachNullsGroup ==
    [][ /\ (lastOp'.op = "detach" /\ m_pValue[lastOp'.h] # Null)
            => /\ ~undefined'
               /\ lastOp'.ret = m_pValue[lastOp'.h]
               /\ deleted' = deleted
               /\ \A g \in lLive : m_pValue[g] = m_pValue[lastOp'.h]
                    => /\ m_pValue'[g] = Null
                       /\ nodeNext'[g] = g
                       /\ nodePrev'[g] = g
        /\ (lastOp.op = "detach" /\ lastOp'.op = "destroy" /\ m_pValue[lastOp'.h] = Null)
            => deleted' = deleted
      ]_vars

\* C12: circular-list pointer force_delete(): called on a handle with a
\* non-null address it is defined, deletes the object exactly once, and leaves
\* no live handle holding the deleted address (every former alias is null and
\* a singleton).
C12_ForceDeleteOnce ==
    [][ (lastOp'.op = "force_delete" /\ m_pValue[lastOp'.h] # Null)
            => /\ ~undefined'
               /\ m_pValue[lastOp'.h] \in deleted'
               /\ m_pValue[lastOp'.h] \notin deletedTwice'
               /\ \A g \in lLive :
                    /\ m_pValue'[g] # m_pValue[lastOp'.h]
                    /\ m_pValue[g] = m_pValue[lastOp'.h]
                        => m_pValue'[g] = Null /\ nodeNext'[g] = g /\ nodePrev'[g] = g
      ]_vars

\* C13: circular-list pointer count(): on every live handle the Next walk comes
\* back to the handle over live handles only, and the result is the number of
\* live handles holding the same address; a null handle reports 1.
C13_CountIsHolders ==
    \A h \in lLive :
        /\ Orbit(h) \subseteq lLive
        /\ countOf(h) = IF m_pValue[h] = Null THEN 1
                        ELSE Cardinality(Holders(m_pValue[h]))

\* C15: circular-list pointer, null is always a singleton: every live handle
\* with a null address has Next = Prev = itself, and no other live handle's
\* Next or Prev points to it.
C15_NullIsSingleton ==
    \A h \in lLive : m_pValue[h] = Null
        => /\ Singleton(h)
           /\ \A g \in lLive \ {h} : nodeNext[g] # h /\ nodePrev[g] # h

\* C14: intrusive pointer move operations: move-construction leaves the source
\* null, gives the new handle the source's former address and calls neither
\* duplicate() nor release(); move-assignment from a different handle releases
\* the target's former non-null address exactly once, takes the source's
\* address without duplicate() and leaves the source null.
C14_MoveSteals ==
    /\ (component = "auto" /\ lastOp.op = "move")
        => /\ m_ptr[lastOp.src] = Null
           /\ m_ptr[lastOp.h] = lastOp.arg
           /\ calls = <<>>
    /\ (component = "auto" /\ lastOp.op = "assign_move" /\ lastOp.h # lastOp.src)
        => /\ m_ptr[lastOp.src] = Null
           /\ m_ptr[lastOp.h] = lastOp.arg
           /\ calls = Rel(lastOp.ret)

\* C14 witness: a move-assignment between two different handles that both held
\* a non-null address, and different ones, has run.
C14_Witness ==
    /\ component = "auto" /\ lastOp.op = "assign_move" /\ lastOp.h # lastOp.src
    /\ lastOp.arg # Null /\ lastOp.ret # Null /\ lastOp.arg # lastOp.ret
    /\ m_ptr[lastOp.h] = lastOp.arg

\* C16: intrusive pointer: constructing a handle on a freshly allocated pointee
\* calls nothing, and destroying that handle right afterwards calls release()
\* exactly once and never duplicate(); constructing or destroying a null handle
\* calls neither.
C16_ConstructDestroyReleasesOnce ==
    [][ /\ (component = "auto" /\ lastOp'.op \in {"make_auto", "construct"})
            => calls' = <<>>
        /\ (component = "auto" /\ lastOp'.op = "destroy" /\ lastOp'.arg = Null)
            => calls' = <<>>
        /\ (component = "auto" /\ lastOp.op = "make_auto"
                /\ lastOp'.op = "destroy" /\ lastOp'.h = lastOp.h)
            => /\ calls' = <<<<"release", lastOp.arg>>>>
               /\ ~undefined'
      ]_vars

\* C16 witness: a handle made on a fresh pointee was destroyed by the very next
\* operation, which released the pointee.
C16_Witness ==
    /\ component = "auto" /\ steps = 2
    /\ lastOp.op = "destroy" /\ lastOp.arg # Null
    /\ calls = <<<<"release", lastOp.arg>>>>
    /\ lastOp.arg \in destroyed

\* C17: circular-list splice: after copy-constructing a handle N from a
\* non-null source S, or copy-assigning S to a handle N that was alone in its
\* cycle and held another address, with X the live successor S had before:
\* S.Next = N, N.Prev = S, N.Next = X and X.Prev = N (X is S itself when S was
\* alone), and every other link is unchanged.
C17_SpliceWellFormed ==
    [][ \A N \in Handles, S \in lLive :
          ( /\ lastOp'.h = N /\ lastOp'.src = S /\ N # S
            /\ m_pValue[S] # Null
            /\ nodeNext[S] \in lLive
            /\ \/ lastOp'.op = "copy"
               \/ /\ lastOp'.op = "assign"
                  /\ m_pValue[N] # m_pValue[S] /\ nodeNext[N] = N )
          => /\ nodeNext'[S] = N
             /\ nodePrev'[N] = S
             /\ nodeNext'[N] = nodeNext[S]
             /\ nodePrev'[nodeNext[S]] = N
             /\ \A g \in lLive \ {N, S} : nodeNext'[g] = nodeNext[g]
             /\ \A g \in lLive \ {N, nodeNext[S]} : nodePrev'[g] = nodePrev[g]
      ]_vars

\* C18: circular-list unlink: when reset(newValue) or the destructor runs on a
\* member h of a group of n >= 2 live handles sharing a non-null address (and
\* newValue is another address), the step is defined, nothing is deleted, h
\* (if it lives on) is a singleton holding newValue, and each of the other n-1
\* handles reports count() = n-1 and has no link pointing at h.
C18_UnlinkKeepsCycle ==
    [][ \A h \in lLive :
          ( /\ lastOp'.h = h /\ lastOp'.op \in {"reset", "destroy"}
            /\ m_pValue[h] # Null /\ lastOp'.arg # m_pValue[h]
            /\ Cardinality(Holders(m_pValue[h])) >= 2 )
          => /\ ~undefined'
             /\ deleted' = deleted
             /\ h \in lLive' => /\ m_pValue'[h] = lastOp'.arg
                                /\ nodeNext'[h] = h
                                /\ nodePrev'[h] = h
             /\ \A g \in Holders(m_pValue[h]) \ {h} :
                  /\ countOf(g)' = Cardinality(Holders(m_pValue[h])) - 1
                  /\ nodeNext'[g] # h
                  /\ nodePrev'[g] # h
      ]_vars

\* C19: circular-list copy-assignment Q = P.  If both hold the same address
\* nothing changes.  Otherwise the step is defined; Q's former object is
\* deleted if and only if Q was its only live holder, and its other holders
\* then report count() reduced by one; afterwards Q holds P's address; if that
\* is non-null Q is in P's cycle and count() on P is one more than before; if
\* it is null Q is a null singleton.
C19_AssignJoinsCycle ==
    [][ \A Q \in lLive, P \in lLive :
          (lastOp'.op = "assign" /\ lastOp'.h = Q /\ lastOp'.src = P)
          => IF m_pValue[Q] = m_pValue[P]
             THEN UNCHANGED <<m_pValue, nodeNext, nodePrev, deleted, deletedTwice>>
             ELSE /\ ~undefined'
                  /\ m_pValue[Q] # Null
                      => /\ lastOp'.ret = IF Holders(m_pValue[Q]) = {Q}
                                          THEN m_pValue[Q] ELSE Null
                         /\ \A g \in Holders(m_pValue[Q]) \ {Q} :
                              countOf(g)' = Cardinality(Holders(m_pValue[Q])) - 1
                  /\ m_pValue'[Q] = m_pValue[P]
                  /\ m_pValue[P] # Null
                      => /\ Q \in Orbit(P)'
                         /\ countOf(P) # 0 => countOf(P)' = countOf(P) + 1
                  /\ m_pValue[P] = Null
                      => nodeNext'[Q] = Q /\ nodePrev'[Q] = Q
      ]_vars

\* C20: intrusive pointer reset variants: reset() releases a held non-null
\* address exactly once and leaves the handle null; reset(ptr, shared) and
\* reset(ptr) with ptr other than the held address release the held non-null
\* address exactly once and adopt ptr, calling duplicate() on ptr exactly when
\* shared is given as true and ptr is non-null; with ptr equal to the held
\* address they call nothing and keep the address.
C20_ResetVariants ==
    [][ \A h \in aLive :
          (component = "auto" /\ lastOp'.h = h)
          => /\ lastOp'.op = "reset"
                 => calls' = Rel(m_ptr[h]) /\ m_ptr'[h] = Null
             /\ lastOp'.op \in {"reset_ptr", "reset_unshared", "reset_shared"}
                 => IF lastOp'.arg = m_ptr[h]
                    THEN calls' = <<>> /\ m_ptr'[h] = m_ptr[h]
                    ELSE /\ m_ptr'[h] = lastOp'.arg
                         /\ calls' = Rel(m_ptr[h]) \o
                                (IF lastOp'.op = "reset_shared"
                                 THEN Dup(lastOp'.arg) ELSE <<>>)
      ]_vars

\* C20 witness: reset(ptr, true) has run on a handle that held another non-null
\* address: it released that one and duplicated ptr.
C20_Witness ==
    /\ component = "auto" /\ lastOp.op = "reset_shared" /\ lastOp.arg # Null
    /\ Len(calls) = 2
    /\ calls[1][1] = "release" /\ calls[1][2] # lastOp.arg
    /\ calls[2] = <<"duplicate", lastOp.arg>>
    /\ m_ptr[lastOp.h] = lastOp.arg

====
